---- MODULE Spec2Model ----
(***************************************************************************)
(* Order management and payment settlement (backend/orders/views.py).      *)
(*                                                                         *)
(* The order store, the product stock, the notification queue and the      *)
(* request handlers create / cancel / admin status update / webhook.       *)
(* A handler is split at every access to the shared store and at every     *)
(* call to the payment gateway, so that requests served by different       *)
(* workers interleave as they do on the database.  Model.save() writes     *)
(* every column of the instance the handler holds in memory.               *)
(***************************************************************************)
EXTENDS Integers, Sequences, FiniteSets, TLC

\* ------------------------------------------------------------------ bounds
MaxReqs == 3
MaxOrders == 2
MaxOverlap == 1
InitStock == 1

\* ------------------------------------------------------------- input sets
Procs == {"r1", "r2"}
Anon == "anon"
Users == {"alice", "bob"}
Callers == Users \cup {Anon}
Null == "null"
\* payment intents of the gateway; checkouts of this shop pay with the first
IntentIds == {"pi_1", "pi_2"}
CheckoutIntents == {"pi_1"}
Products == {"p1", "p2"}
Methods == {"stripe", "mock", "cod"}
OrderIds == 1..MaxOrders

Item(p, q) == [product |-> p, quantity |-> q]
Carts == { <<Item("p1", 1), Item("p2", 1), Item("p1", 2)>> }
InvalidCart == <<>>

\* what stripe.PaymentIntent.retrieve answers: an error, or an intent
IntentStatuses == {"succeeded", "requires_payment_method"}
IntentAmounts == {400, 500}
IntentOutcomes ==
    {[error |-> TRUE]}
    \cup [error : {FALSE}, status : IntentStatuses, amount : IntentAmounts]
RefundOutcomes == {"succeeded", "pending", "failed", "error"}
Payloads == {"signed", "malformed", "badsig"}
EventTypes == {"payment_intent.succeeded", "payment_intent.payment_failed",
               "charge.refunded"}

\* --------------------------------------------------------------- the model
STATUS_CHOICES == {"pending", "processing", "shipped", "delivered", "cancelled"}

IsAdminAnyUser(u) == TRUE

is_admin(u) == u = "bob"

\* unit price captured on a line item, in cents
UnitPrice == [p \in Products |-> IF p = "p1" THEN 100 ELSE 200]

RECURSIVE CartTotal(_)
CartTotal(items) ==
    IF items = <<>> THEN 0
    ELSE UnitPrice[Head(items).product] * Head(items).quantity
         + CartTotal(Tail(items))

VARIABLES
    orders,     \* order store: committed rows, id -> row
    stock,      \* product store: product -> stock counter
    queue,      \* worker queue of confirmation tasks (order ids)
    sent,       \* confirmation mails sent from the webhook, per order id
    nextId,     \* ids handed out by serializer.save()
    pc,         \* per worker: position of the request it serves
    req,        \* per worker: the request, as far as the handler has read it
    loc,        \* per worker: the handler's local variables and response
    snap,       \* the stores as they were when no request was in flight
    restocks,   \* per order id: how often cancel_order ran its restock loop
    nreq,       \* requests accepted so far
    nover,      \* requests accepted while another was in flight
    budget      \* requests the run may accept

vars == <<orders, stock, queue, sent, nextId, pc, req, loc, snap, restocks,
          nreq, nover, budget>>

stores == <<orders, stock, queue, sent, nextId, restocks>>

NoReq == [kind |-> "none"]
NoLoc == [resp |-> 0]

Snapshot == [orders |-> orders, stock |-> stock, queue |-> queue, sent |-> sent]

Fresh ==
    /\ orders = <<>>
    /\ stock = [p \in Products |-> InitStock]
    /\ queue = <<>>
    /\ sent = [o \in OrderIds |-> 0]
    /\ nextId = 1
    /\ pc = [p \in Procs |-> "idle"]
    /\ req = [p \in Procs |-> NoReq]
    /\ loc = [p \in Procs |-> NoLoc]
    /\ snap = Snapshot
    /\ restocks = [o \in OrderIds |-> 0]
    /\ nreq = 0
    /\ nover = 0

Init == Fresh /\ budget = MaxReqs

Quiet == \A q \in Procs : pc[q] = "idle"

\* a response leaves before anything else is scheduled
Responding == \E q \in Procs : pc[q] = "done"

\* worker p is about to run the step at this label
At(p, label) == pc[p] = label /\ ~Responding

\* a request goes to the first free worker
FirstFree(p) ==
    /\ pc[p] = "idle"
    /\ \A q \in Procs : pc[q] = "idle" => (q = p \/ p = "r1")

\* A request arrives at a free worker.
Accept(p, r) ==
    /\ req' = [req EXCEPT ![p] = r]
    /\ nreq' = nreq + 1
    /\ snap' = IF Quiet THEN Snapshot ELSE snap
    /\ nover' = IF Quiet THEN nover ELSE nover + 1
    /\ UNCHANGED budget

CanAccept(p) ==
    /\ FirstFree(p)
    /\ ~Responding
    /\ nreq < budget
    /\ Quiet \/ nover < MaxOverlap

\* The handler returns its response.
Done(p, l) ==
    /\ pc' = [pc EXCEPT ![p] = "done"]
    /\ loc' = [loc EXCEPT ![p] = l]

Goto(p, label, l) ==
    /\ pc' = [pc EXCEPT ![p] = label]
    /\ loc' = [loc EXCEPT ![p] = l]

\* a later step of a request in flight
Later == UNCHANGED <<req, snap, nreq, nover, budget>>

\* permission_classes([IsAuthenticated]): the status a caller without a user gets
Unauthenticated == {401, 403}

IsAuthenticated(caller) == caller # Anon

\* ------------------------------------------------ OrderCreateView.create
SerializerIsValid(cart) == cart # InvalidCart

\* the row serializer.save() builds from validated_data
NewOrder(user, method, cart, payment_status, payment_intent_id) ==
    [user |-> user, status |-> "pending", payment_method |-> method,
     payment_status |-> payment_status, payment_intent_id |-> payment_intent_id,
     items |-> cart]

\* mutation: the payment reference is never asked for
MissingIntentNever(pi) == FALSE

MissingIntent(pi) == pi = Null

\* mutation: any intent the gateway returns is taken as paid
IntentRetrieved(outcome, total) == ~outcome.error

\* the intent retrieved passes the checks of the handler; the amount is
\* converted (stripe_amount) and compared with nothing
IntentAccepted(outcome, total) == ~outcome.error /\ outcome.status = "succeeded"

\* mutation: mock orders are left unpaid
MockPaymentUnpaid == "unpaid"

MockPaymentStatus == "paid"

CreatesInFlight == Cardinality({q \in Procs : pc[q] \in {"retrieve", "save"}})

StartCreate(p) ==
    /\ CanAccept(p)
    /\ nextId + CreatesInFlight <= MaxOrders
    /\ UNCHANGED stores
    /\ \E caller \in Callers :
        IF ~IsAuthenticated(caller)
        THEN /\ Accept(p, [kind |-> "create", caller |-> caller])
             /\ \E code \in Unauthenticated :
                    Done(p, [resp |-> code, calls |-> 0, intent |-> Null])
        ELSE \E cart \in Carts \cup {InvalidCart} :
            IF ~SerializerIsValid(cart)
            THEN /\ Accept(p, [kind |-> "create", caller |-> caller, cart |-> cart])
                 /\ Done(p, [resp |-> 400, calls |-> 0, intent |-> Null])
            ELSE \E method \in Methods :
                IF method = "stripe"
                THEN \E pi \in CheckoutIntents \cup {Null} :
                    /\ Accept(p, [kind |-> "create", caller |-> caller, cart |-> cart,
                                  method |-> method, pi |-> pi])
                    /\ IF MissingIntent(pi)
                       THEN Done(p, [resp |-> 400, calls |-> 0, intent |-> Null])
                       ELSE Goto(p, "retrieve",
                                 [resp |-> 0, calls |-> 0, intent |-> Null])
                ELSE
                    /\ Accept(p, [kind |-> "create", caller |-> caller, cart |-> cart,
                                  method |-> method, pi |-> Null])
                    /\ Goto(p, "save",
                            [resp |-> 0, calls |-> 0, intent |-> Null,
                             payment_status |->
                                 IF method = "mock" THEN MockPaymentStatus ELSE "unpaid",
                             payment_intent_id |-> Null])

\* stripe.PaymentIntent.retrieve and the checks on what it returns
CreateRetrieve(p) ==
    /\ At(p, "retrieve")
    /\ \E outcome \in IntentOutcomes :
        IF IntentAccepted(outcome, CartTotal(req[p].cart))
        THEN Goto(p, "save", [resp |-> 0, calls |-> 1, intent |-> outcome,
                              payment_status |-> "paid",
                              payment_intent_id |-> req[p].pi])
        ELSE Done(p, [resp |-> 400, calls |-> 1, intent |-> outcome])
    /\ UNCHANGED stores
    /\ Later

\* serializer.save(): the rows are written inside the transaction
CreateSave(p) ==
    /\ At(p, "save")
    /\ nextId' = nextId + 1
    /\ Goto(p, "enqueue",
            [resp |-> 0, calls |-> loc[p].calls, intent |-> loc[p].intent,
             id |-> nextId,
             order |-> NewOrder(req[p].caller, req[p].method, req[p].cart,
                                loc[p].payment_status, loc[p].payment_intent_id)])
    /\ UNCHANGED <<orders, stock, queue, sent, restocks>>
    /\ Later

\* send_order_confirmation_email.delay(order.id)
CreateEnqueue(p) ==
    /\ At(p, "enqueue")
    /\ queue' = Append(queue, loc[p].id)
    /\ Goto(p, "commit", loc[p])
    /\ UNCHANGED <<orders, stock, sent, nextId, restocks>>
    /\ Later

\* leaving transaction.atomic(): the rows become visible
CreateCommit(p) ==
    /\ At(p, "commit")
    /\ orders' = (loc[p].id :> loc[p].order) @@ orders
    /\ Done(p, [loc[p] EXCEPT !.resp = 201])
    /\ UNCHANGED <<stock, queue, sent, nextId, restocks>>
    /\ Later

\* ------------------------------------------------------------ cancel_order
\* mutation: shipped orders may be cancelled too
CancellableUntilDelivered(o) == o.status \in {"pending", "processing", "shipped"}

Cancellable(o) == o.status \in {"pending", "processing"}

NeedsRefund(o) ==
    /\ o.payment_method = "stripe"
    /\ o.payment_intent_id # Null
    /\ o.payment_status = "paid"

\* mutation: a refund still pending counts as done
RefundNotFailed(outcome) == outcome \in {"succeeded", "pending"}

RefundSucceeded(outcome) == outcome = "succeeded"

\* mutation: one unit is put back per line item
RestockedByOne(s, quantity) == s + 1

RestockedOverwrite(s, quantity) == quantity

Restocked(s, quantity) == s + quantity

\* get_object_or_404(Order, id=order_id, user=request.user)
OwnOrderAnyUser(oid, caller) == oid \in DOMAIN orders

OwnOrder(oid, caller) == oid \in DOMAIN orders /\ orders[oid].user = caller

StartCancel(p) ==
    /\ CanAccept(p)
    /\ UNCHANGED stores
    /\ \E caller \in Callers :
        IF ~IsAuthenticated(caller)
        THEN /\ Accept(p, [kind |-> "cancel", caller |-> caller])
             /\ \E code \in Unauthenticated :
                    Done(p, [resp |-> code, calls |-> 0, refund |-> Null])
        ELSE \E oid \in OrderIds :
            /\ Accept(p, [kind |-> "cancel", caller |-> caller, oid |-> oid])
            /\ IF ~OwnOrder(oid, caller)
               THEN Done(p, [resp |-> 404, calls |-> 0, refund |-> Null])
               ELSE IF ~Cancellable(orders[oid])
               THEN Done(p, [resp |-> 400, calls |-> 0, refund |-> Null])
               ELSE IF NeedsRefund(orders[oid])
               THEN Goto(p, "refund", [resp |-> 0, calls |-> 0, refund |-> Null,
                                       order |-> orders[oid]])
               ELSE Goto(p, "item_read",
                         [resp |-> 0, calls |-> 0, refund |-> Null,
                          order |-> orders[oid], i |-> 1])

\* the same with the order saved as soon as it is marked refunded
CancelRefundSaving(p) ==
    /\ At(p, "refund")
    /\ \E outcome \in RefundOutcomes :
        IF RefundSucceeded(outcome)
        THEN /\ Goto(p, "item_read",
                     [resp |-> 0, calls |-> 1, refund |-> outcome, i |-> 1,
                      order |-> [loc[p].order EXCEPT !.payment_status = "refunded"]])
             /\ orders' = [orders EXCEPT ![req[p].oid] =
                              [loc[p].order EXCEPT !.payment_status = "refunded"]]
        ELSE /\ Done(p, [resp |-> 400, calls |-> 1, refund |-> outcome])
             /\ UNCHANGED orders
    /\ UNCHANGED <<stock, queue, sent, nextId, restocks>>
    /\ Later

\* stripe.Refund.create and the check of refund.status
CancelRefund(p) ==
    /\ At(p, "refund")
    /\ \E outcome \in RefundOutcomes :
        IF RefundSucceeded(outcome)
        THEN Goto(p, "item_read",
                  [resp |-> 0, calls |-> 1, refund |-> outcome, i |-> 1,
                   order |-> [loc[p].order EXCEPT !.payment_status = "refunded"]])
        ELSE Done(p, [resp |-> 400, calls |-> 1, refund |-> outcome])
    /\ UNCHANGED stores
    /\ Later

\* item.product: the product row is fetched for the line item
CancelItemRead(p) ==
    /\ At(p, "item_read")
    /\ LET item == loc[p].order.items[loc[p].i]
       IN  Goto(p, "item_write",
                [product_stock |-> stock[item.product]] @@ loc[p])
    /\ UNCHANGED stores
    /\ Later

\* item.product.stock += item.quantity; item.product.save()
CancelItemWrite(p) ==
    /\ At(p, "item_write")
    /\ LET item == loc[p].order.items[loc[p].i]
           l == [resp |-> 0, calls |-> loc[p].calls, refund |-> loc[p].refund,
                 order |-> loc[p].order, i |-> loc[p].i + 1]
       IN  /\ stock' = [stock EXCEPT ![item.product] =
                           Restocked(loc[p].product_stock, item.quantity)]
           /\ IF loc[p].i < Len(loc[p].order.items)
              THEN Goto(p, "item_read", l) /\ UNCHANGED restocks
              ELSE /\ Goto(p, "order_save", l)
                   /\ restocks' = [restocks EXCEPT ![req[p].oid] = @ + 1]
    /\ UNCHANGED <<orders, queue, sent, nextId>>
    /\ Later

\* order.status = 'cancelled'; order.save()
CancelSave(p) ==
    /\ At(p, "order_save")
    /\ orders' = [orders EXCEPT ![req[p].oid] =
                     [loc[p].order EXCEPT !.status = "cancelled"]]
    /\ Done(p, [resp |-> 200, calls |-> loc[p].calls, refund |-> loc[p].refund])
    /\ UNCHANGED <<stock, queue, sent, nextId, restocks>>
    /\ Later

\* ----------------------------------------------- admin_update_order_status
StatusInputs == STATUS_CHOICES \cup {"bogus"}

ValidStatusAny(s) == TRUE

ValidStatus(s) == s \in STATUS_CHOICES

StartAdmin(p) ==
    /\ CanAccept(p)
    /\ UNCHANGED stores
    /\ \E caller \in Callers :
        IF ~IsAuthenticated(caller)
        THEN /\ Accept(p, [kind |-> "admin", caller |-> caller])
             /\ \E code \in Unauthenticated : Done(p, [resp |-> code])
        ELSE IF ~is_admin(caller)
        THEN /\ Accept(p, [kind |-> "admin", caller |-> caller])
             /\ Done(p, [resp |-> 403])
        ELSE \E oid \in OrderIds :
            IF oid \notin DOMAIN orders
            THEN /\ Accept(p, [kind |-> "admin", caller |-> caller, oid |-> oid])
                 /\ Done(p, [resp |-> 404])
            ELSE \E new_status \in StatusInputs :
                /\ Accept(p, [kind |-> "admin", caller |-> caller, oid |-> oid,
                              status |-> new_status])
                /\ IF ~ValidStatus(new_status)
                   THEN Done(p, [resp |-> 400])
                   ELSE Goto(p, "admin_save",
                             [resp |-> 0,
                              order |-> [orders[oid] EXCEPT !.status = new_status]])

\* order.save()
AdminSave(p) ==
    /\ At(p, "admin_save")
    /\ orders' = [orders EXCEPT ![req[p].oid] = loc[p].order]
    /\ Done(p, [loc[p] EXCEPT !.resp = 200])
    /\ UNCHANGED <<stock, queue, sent, nextId, restocks>>
    /\ Later

\* ----------------------------------------------------------- stripe_webhook
\* settings.STRIPE_WEBHOOK_SECRET, read on every request
SecretConfigured(endpoint_secret) == endpoint_secret

\* stripe.Webhook.construct_event accepts the payload
EventVerified(payload) == payload = "signed"

\* mutation: the lookup takes any order that carries a payment reference
MatchingAnyIntent(pi) == {o \in DOMAIN orders : orders[o].payment_intent_id # Null}

\* Order.objects.get(payment_intent_id=...) looks among these
Matching(pi) == {o \in DOMAIN orders : orders[o].payment_intent_id = pi}

Handled(type) ==
    type \in {"payment_intent.succeeded", "payment_intent.payment_failed"}

EventStatus(type) == IF type = "payment_intent.succeeded" THEN "paid" ELSE "failed"

\* the instance the webhook holds after setting payment_status
Reconciled(o, type) == [o EXCEPT !.payment_status = EventStatus(type)]

StartWebhook(p) ==
    /\ CanAccept(p)
    /\ UNCHANGED stores
    /\ \E caller \in Callers, endpoint_secret \in BOOLEAN, payload \in Payloads :
        IF ~IsAuthenticated(caller)
        THEN /\ Accept(p, [kind |-> "webhook", caller |-> caller,
                           secret |-> endpoint_secret, payload |-> payload])
             /\ \E code \in Unauthenticated : Done(p, [resp |-> code])
        ELSE IF ~SecretConfigured(endpoint_secret)
        THEN /\ Accept(p, [kind |-> "webhook", caller |-> caller,
                           secret |-> endpoint_secret, payload |-> payload])
             /\ Done(p, [resp |-> 400])
        ELSE IF ~EventVerified(payload)
        THEN /\ Accept(p, [kind |-> "webhook", caller |-> caller,
                           secret |-> endpoint_secret, payload |-> payload])
             /\ Done(p, [resp |-> 400])
        ELSE \E type \in EventTypes, pi \in IntentIds :
                /\ Accept(p, [kind |-> "webhook", caller |-> caller,
                              secret |-> endpoint_secret, payload |-> payload,
                              type |-> type, pi |-> pi])
                /\ IF ~Handled(type) \/ Matching(pi) = {}
                   THEN Done(p, [resp |-> 200])
                   ELSE IF Cardinality(Matching(pi)) > 1
                   THEN Done(p, [resp |-> 500])
                   ELSE LET oid == CHOOSE o \in Matching(pi) : TRUE
                        IN  Goto(p, "hook_save",
                                 [resp |-> 0, id |-> oid,
                                  order |-> Reconciled(orders[oid], type)])

\* order.save()
WebhookSave(p) ==
    /\ At(p, "hook_save")
    /\ orders' = [orders EXCEPT ![loc[p].id] = loc[p].order]
    /\ IF req[p].type = "payment_intent.succeeded"
       THEN Goto(p, "hook_mail", loc[p])
       ELSE Done(p, [loc[p] EXCEPT !.resp = 200])
    /\ UNCHANGED <<stock, queue, sent, nextId, restocks>>
    /\ Later

\* send_order_confirmation_email(order.id), called in the request
WebhookMail(p) ==
    /\ At(p, "hook_mail")
    /\ sent' = [sent EXCEPT ![loc[p].id] = @ + 1]
    /\ Done(p, [loc[p] EXCEPT !.resp = 200])
    /\ UNCHANGED <<orders, stock, queue, nextId, restocks>>
    /\ Later

\* ------------------------------------------------------ admin_dashboard_data
\* The order table is seen through the two counts the handler queries; a
\* percentage is held as a whole number of hundredths.
MaxCount == 32

Counts == 0 .. MaxCount

\* round(n / d, 0) for d > 0: the nearest whole number; a quotient exactly
\* half way goes to either neighbour, as the error of the binary floating-point
\* division and multiplication before round() decides
Rounded(n, d) ==
    LET q == n \div d
        r == n - q * d
    IN  IF 2 * r < d THEN {q}
        ELSE IF 2 * r > d THEN {q + 1}
        ELSE {q, q + 1}

\* the quotient taken as a whole number before the multiplication
growth_floor(this_week_orders, last_week_orders) ==
    IF last_week_orders # 0
    THEN {((this_week_orders - last_week_orders) \div last_week_orders) * 10000}
    ELSE IF this_week_orders > 0 THEN {10000}
    ELSE {0}

\* round(growth, 2), in hundredths
growth(this_week_orders, last_week_orders) ==
    IF last_week_orders # 0
    THEN Rounded((this_week_orders - last_week_orders) * 10000, last_week_orders)
    ELSE IF this_week_orders > 0 THEN {10000}
    ELSE {0}

admin_dashboard_data(p) ==
    /\ CanAccept(p)
    /\ UNCHANGED stores
    /\ \E caller \in Callers :
        IF ~IsAuthenticated(caller)
        THEN /\ Accept(p, [kind |-> "dashboard", caller |-> caller])
             /\ \E code \in Unauthenticated : Done(p, [resp |-> code])
        ELSE IF ~is_admin(caller)
        THEN /\ Accept(p, [kind |-> "dashboard", caller |-> caller])
             /\ Done(p, [resp |-> 403])
        ELSE \E this_week_orders \in Counts, last_week_orders \in Counts :
            /\ Accept(p, [kind |-> "dashboard", caller |-> caller,
                          this_week_orders |-> this_week_orders,
                          last_week_orders |-> last_week_orders])
            /\ \E g \in growth(this_week_orders, last_week_orders) :
                   Done(p, [resp |-> 200, growth |-> g])

\* ------------------------------------------------------------------ workers
\* the response is delivered; the worker is free again
Return(p) ==
    /\ pc[p] = "done"
    /\ pc' = [pc EXCEPT ![p] = "idle"]
    /\ req' = [req EXCEPT ![p] = NoReq]
    /\ loc' = [loc EXCEPT ![p] = NoLoc]
    /\ UNCHANGED <<stores, snap, nreq, nover, budget>>

Handle(p) ==
    \/ StartCreate(p)
    \/ CreateRetrieve(p)
    \/ CreateSave(p)
    \/ CreateEnqueue(p)
    \/ CreateCommit(p)
    \/ StartCancel(p)
    \/ CancelRefund(p)
    \/ CancelItemRead(p)
    \/ CancelItemWrite(p)
    \/ CancelSave(p)
    \/ StartAdmin(p)
    \/ AdminSave(p)
    \/ StartWebhook(p)
    \/ WebhookSave(p)
    \/ WebhookMail(p)

Step(p) == Return(p) \/ Handle(p)

Next == \E p \in Procs : Step(p)

Spec == Init /\ [][Next]_vars

\* one request at a time
SeqNext == Step("r1")

SeqSpec == Init /\ [][SeqNext]_vars

\* One request at a time, over a history one request longer.
HistoryInit == Fresh /\ budget = MaxReqs + 1

HistorySpec == HistoryInit /\ [][SeqNext]_vars

\* The handler's process stops between two steps: what it held in memory is
\* gone, the stores keep what was written (an open transaction is rolled
\* back; its order was staged, never stored).
Crash(p) ==
    /\ pc[p] \notin {"idle", "done", "crashed"}
    /\ ~Responding
    /\ pc' = [pc EXCEPT ![p] = "crashed"]
    /\ loc' = [loc EXCEPT ![p] = [at |-> pc[p]] @@ loc[p]]
    /\ UNCHANGED stores
    /\ Later

\* the worker is started again
Restart(p) ==
    /\ pc[p] = "crashed"
    /\ pc' = [pc EXCEPT ![p] = "idle"]
    /\ req' = [req EXCEPT ![p] = NoReq]
    /\ loc' = [loc EXCEPT ![p] = NoLoc]
    /\ UNCHANGED <<stores, snap, nreq, nover, budget>>

\* One request at a time, in a process that may stop.
CrashNext == Step("r1") \/ Crash("r1") \/ Restart("r1")

CrashSpec == Init /\ [][CrashNext]_vars

\* The out-of-process queue worker takes the oldest task and runs it: the
\* confirmation mail goes out if the order can be read, and the task fails if
\* it cannot.
WorkerRun ==
    /\ queue # <<>>
    /\ queue' = Tail(queue)
    /\ sent' = IF Head(queue) \in DOMAIN orders
               THEN [sent EXCEPT ![Head(queue)] = @ + 1]
               ELSE sent
    /\ UNCHANGED <<orders, stock, nextId, restocks, pc, loc>>
    /\ Later

\* One request at a time in a process that may stop, beside the queue worker.
WorkerNext == CrashNext \/ WorkerRun

WorkerSpec == Init /\ [][WorkerNext]_vars

\* The dashboard alone, one request at a time.
DashboardNext == admin_dashboard_data("r1") \/ Return("r1")

DashboardSpec == Init /\ [][DashboardNext]_vars

\* ================================================================= claims
RECURSIVE Quantity(_, _)
\* the quantity an order's line items hold of one product
Quantity(items, product) ==
    IF items = <<>> THEN 0
    ELSE (IF Head(items).product = product THEN Head(items).quantity ELSE 0)
         + Quantity(Tail(items), product)

\* worker p has just answered a request of this kind
Finished(p, kind) == pc[p] = "done" /\ req[p].kind = kind

\* the stores are as they were when the request arrived
StoresUntouched ==
    /\ orders = snap.orders
    /\ stock = snap.stock
    /\ queue = snap.queue
    /\ sent = snap.sent

\* the request names an order that was stored when it arrived
NamesOrder(p) == "oid" \in DOMAIN req[p] /\ req[p].oid \in DOMAIN snap.orders

Before(p) == snap.orders[req[p].oid]

PaidGatewayOrder(o) ==
    /\ o.payment_method = "stripe"
    /\ o.payment_intent_id # Null
    /\ o.payment_status = "paid"

\* C1: a cancel request by the owner, served alone, on a pending or processing
\* order that needs no refund or whose refund succeeded answers 200, adds to
\* every product's stock the sum of the quantities of the order's line items
\* that reference it, and leaves the stored order cancelled.
C1_CancelRestocksAndCancels ==
    \A p \in Procs :
        ( /\ Finished(p, "cancel")
          /\ NamesOrder(p)
          /\ Before(p).user = req[p].caller
          /\ Before(p).status \in {"pending", "processing"}
          /\ ~PaidGatewayOrder(Before(p)) \/ loc[p].refund = "succeeded" )
        => /\ loc[p].resp = 200
           /\ stock = [pr \in Products |->
                          snap.stock[pr] + Quantity(Before(p).items, pr)]
           /\ orders[req[p].oid].status = "cancelled"

C1_Witness ==
    \E p \in Procs :
        /\ Finished(p, "cancel")
        /\ loc[p].resp = 200
        /\ loc[p].refund = "succeeded"
        /\ stock["p1"] = snap.stock["p1"] + 3
        /\ stock["p2"] = snap.stock["p2"] + 1

\* C2: a cancel request, served alone, on a stored order whose status is
\* neither pending nor processing is answered with an error (400 to the
\* owner), asks the gateway for nothing and leaves orders, stock, queue and
\* mails as they were.
C2_UncancellableRejected ==
    \A p \in Procs :
        ( /\ Finished(p, "cancel")
          /\ NamesOrder(p)
          /\ Before(p).status \notin {"pending", "processing"} )
        => /\ loc[p].resp \in {400, 404}
           /\ Before(p).user = req[p].caller => loc[p].resp = 400
           /\ loc[p].calls = 0
           /\ StoresUntouched

C2_Witness ==
    \E p \in Procs :
        /\ Finished(p, "cancel")
        /\ NamesOrder(p)
        /\ Before(p).user = req[p].caller
        /\ Before(p).status = "shipped"
        /\ loc[p].resp = 400

\* C3: when the refund asked for by a cancel request, served alone, comes back
\* other than succeeded (another refund status, or a gateway error), the
\* request is answered 400 and nothing stored has changed: the order keeps its
\* status and payment_status = paid, and no stock moves.
C3_FailedRefundAborts ==
    \A p \in Procs :
        ( /\ Finished(p, "cancel")
          /\ loc[p].refund \in {"pending", "failed", "error"} )
        => /\ loc[p].resp = 400
           /\ StoresUntouched
           /\ orders[req[p].oid].status \in {"pending", "processing"}
           /\ orders[req[p].oid].payment_status = "paid"

C3_Witness ==
    \E p \in Procs :
        /\ Finished(p, "cancel")
        /\ loc[p].refund = "pending"
        /\ loc[p].resp = 400
        /\ orders[req[p].oid].status = "processing"

\* the gateway did not confirm the payment of this create request
Unpaid(p) ==
    \/ req[p].pi = Null
    \/ loc[p].calls = 1 /\ loc[p].intent.error
    \/ loc[p].calls = 1 /\ ~loc[p].intent.error
       /\ loc[p].intent.status # "succeeded"

\* C4: a gateway create request, served alone, whose payment reference is
\* missing, whose intent cannot be retrieved or whose intent is not succeeded
\* is answered 400 and persists no order, no line item and no notification.
C4_UnpaidGatewayOrderNotPersisted ==
    \A p \in Procs :
        ( /\ Finished(p, "create")
          /\ "method" \in DOMAIN req[p]
          /\ req[p].method = "stripe"
          /\ Unpaid(p) )
        => /\ loc[p].resp = 400
           /\ StoresUntouched

C4_Witness ==
    \E p \in Procs :
        /\ Finished(p, "create")
        /\ "method" \in DOMAIN req[p]
        /\ req[p].method = "stripe"
        /\ loc[p].calls = 1
        /\ ~loc[p].intent.error
        /\ loc[p].intent.status = "requires_payment_method"
        /\ loc[p].resp = 400

\* C5: a gateway create request, served alone, whose succeeded intent has an
\* amount other than the order's total is answered 400 and persists nothing.
C5_AmountMismatchRejected ==
    \A p \in Procs :
        ( /\ Finished(p, "create")
          /\ "method" \in DOMAIN req[p]
          /\ req[p].method = "stripe"
          /\ loc[p].calls = 1
          /\ ~loc[p].intent.error
          /\ loc[p].intent.status = "succeeded"
          /\ loc[p].intent.amount # CartTotal(req[p].cart) )
        => /\ loc[p].resp = 400
           /\ StoresUntouched

\* C6: a create request with method mock never calls the gateway, and the
\* order it persists is stored with payment_status = paid at the moment it
\* becomes visible.
C6_MockPaidWithoutGateway ==
    \A p \in Procs :
        ( /\ req[p].kind = "create"
          /\ "method" \in DOMAIN req[p]
          /\ req[p].method = "mock" )
        => /\ loc[p].calls = 0
           /\ pc[p] = "done" =>
                /\ loc[p].resp = 201
                /\ loc[p].id \in DOMAIN orders
                /\ orders[loc[p].id].payment_method = "mock"
                /\ orders[loc[p].id].payment_status = "paid"

C6_Witness ==
    \E p \in Procs :
        /\ Finished(p, "create")
        /\ "method" \in DOMAIN req[p]
        /\ req[p].method = "mock"
        /\ loc[p].resp = 201

\* the request carries a verified event of a kind the webhook handles
VerifiedEvent(p) ==
    /\ "type" \in DOMAIN req[p]
    /\ req[p].type \in {"payment_intent.succeeded", "payment_intent.payment_failed"}

\* C7: a verified payment_intent.succeeded or payment_intent.payment_failed
\* event, served alone, whose intent id no stored order carries is answered
\* 200 and changes no order, no stock, and sends or queues no mail.
C7_UnknownIntentIgnored ==
    \A p \in Procs :
        ( /\ Finished(p, "webhook")
          /\ VerifiedEvent(p)
          /\ \A o \in DOMAIN snap.orders :
                snap.orders[o].payment_intent_id # req[p].pi )
        => /\ loc[p].resp = 200
           /\ StoresUntouched

C7_Witness ==
    \E p \in Procs :
        /\ Finished(p, "webhook")
        /\ VerifiedEvent(p)
        /\ \E o \in DOMAIN snap.orders : snap.orders[o].payment_intent_id # Null
        /\ \A o \in DOMAIN snap.orders :
              snap.orders[o].payment_intent_id # req[p].pi
        /\ loc[p].resp = 200

\* C8: the step in which the webhook saves the order it reconciled changes
\* nothing but payment_status: every stored order keeps the status it had
\* right before that step, whatever other handlers wrote since the webhook
\* read the order, and no stock moves.
C8_WebhookWritesPaymentStatusOnly ==
    [][ \A p \in Procs :
            (pc[p] = "hook_save" /\ pc'[p] # "hook_save")
            => /\ stock' = stock
               /\ DOMAIN orders' = DOMAIN orders
               /\ \A o \in DOMAIN orders : orders'[o].status = orders[o].status
      ]_vars

\* C9: every stored order paid through the gateway carries a payment reference.
C9_PaidGatewayOrderHasIntent ==
    \A o \in DOMAIN orders :
        (orders[o].payment_method = "stripe" /\ orders[o].payment_status = "paid")
        => orders[o].payment_intent_id # Null

C9_Witness ==
    \E o \in DOMAIN orders :
        /\ orders[o].payment_method = "stripe"
        /\ orders[o].payment_status = "paid"
        /\ sent[o] > 0

\* C10: the webhook asks for a signed payload and for no user: a request with
\* the secret configured and a validly signed payment event is answered 200
\* whoever sends it, and a request with the secret missing or a payload that
\* is malformed or wrongly signed is answered 400 and changes nothing.
C10_WebhookSignedNoUserAuth ==
    \A p \in Procs :
        Finished(p, "webhook")
        => IF req[p].secret /\ req[p].payload = "signed"
           THEN loc[p].resp \in {200, 500}
           ELSE loc[p].resp = 400 /\ StoresUntouched

\* the callers without the administrator capability
NonAdmins == {"alice", Anon}

\* the statuses an order may be stored with
Enumerated == {"pending", "processing", "shipped", "delivered", "cancelled"}

\* C11: a cancel request, served alone, by an authenticated user who is not
\* the user of the stored order it names is answered 404, asks the gateway for
\* no refund and leaves every order (status and payment_status included) and
\* all product stock as they were.
C11_NonOwnerCancelRejected ==
    \A p \in Procs :
        ( /\ Finished(p, "cancel")
          /\ NamesOrder(p)
          /\ req[p].caller \in Users
          /\ Before(p).user # req[p].caller )
        => /\ loc[p].resp = 404
           /\ loc[p].calls = 0
           /\ loc[p].refund = Null
           /\ StoresUntouched

C11_Witness ==
    \E p \in Procs :
        /\ Finished(p, "cancel")
        /\ NamesOrder(p)
        /\ req[p].caller \in Users
        /\ Before(p).user # req[p].caller
        /\ Before(p).status \in {"pending", "processing"}
        /\ PaidGatewayOrder(Before(p))
        /\ loc[p].resp = 404

\* C12: with requests served one at a time, an administrative status update
\* by a caller without the administrator capability is answered with an
\* authorization error (403 to an authenticated caller) and leaves orders,
\* stock, queue and mails as they were; and no step of any request sent by a
\* caller without the capability changes the status of a stored order of
\* another user.
C12_NonAdminCannotSetStatus ==
    /\ [](\A p \in Procs :
            (Finished(p, "admin") /\ req[p].caller \in NonAdmins)
            => /\ loc[p].resp \in Unauthenticated
               /\ req[p].caller \in Users => loc[p].resp = 403
               /\ StoresUntouched)
    /\ [][ \A p \in Procs :
            ( /\ pc'[p] # pc[p]
              /\ pc'[p] # "idle"
              /\ req'[p].caller \in NonAdmins )
            => \A o \in DOMAIN orders :
                   orders[o].user # req'[p].caller
                   => o \in DOMAIN orders' /\ orders'[o].status = orders[o].status
          ]_vars

C12_Witness ==
    \E p \in Procs :
        /\ Finished(p, "admin")
        /\ req[p].caller = "alice"
        /\ loc[p].resp = 403
        /\ \E o \in DOMAIN orders : orders[o].user = "bob"

\* C13: an administrative status update that names a stored order with a
\* status outside the enumerated set is answered 400 to an administrator (an
\* error to anyone) by a step that changes no store; and in every reachable
\* state, requests overlapping or not, the status of every stored order is a
\* member of the enumerated set.
C13_StatusStaysEnumerated ==
    /\ [](\A o \in DOMAIN orders : orders[o].status \in Enumerated)
    /\ [](\A p \in Procs :
            ( /\ Finished(p, "admin")
              /\ "status" \in DOMAIN req[p]
              /\ req[p].status \notin Enumerated )
            => loc[p].resp = 400)
    /\ [][ \A p \in Procs :
            ( /\ pc[p] = "idle"
              /\ pc'[p] = "done"
              /\ req'[p].kind = "admin"
              /\ loc'[p].resp \in {400, 401, 403, 404} )
            => UNCHANGED stores
          ]_vars

C13_Witness ==
    \E p \in Procs :
        /\ Finished(p, "admin")
        /\ "status" \in DOMAIN req[p]
        /\ req[p].status = "bogus"
        /\ loc[p].resp = 400
        /\ orders[req[p].oid].status \in Enumerated

\* C14: for all order counts this (last 7 days) and last (the 7 days before),
\* the growth the dashboard answers is 100 when last = 0 and this > 0, is 0
\* when both are 0, and otherwise is a two-decimal value nearest to
\* (this - last) / last * 100, that is, within half a hundredth of it.
C14_DashboardGrowth ==
    \A p \in Procs :
        (Finished(p, "dashboard") /\ loc[p].resp = 200)
        => LET this == req[p].this_week_orders
               last == req[p].last_week_orders
               g == loc[p].growth
               d == g * last - (this - last) * 10000
           IN  /\ (last = 0 /\ this > 0) => g = 10000
               /\ (last = 0 /\ this = 0) => g = 0
               /\ last > 0 => (2 * d <= last /\ -2 * d <= last)

C14_Witness ==
    \E p \in Procs :
        /\ Finished(p, "dashboard")
        /\ loc[p].resp = 200
        /\ req[p].this_week_orders = 1
        /\ req[p].last_week_orders = 3
        /\ loc[p].growth = -6667

\* no request is in flight, only order o was ever cancelled, and two cancel
\* requests for it passed the status check and ran the restock loop to its end
CancelledTwice(o) ==
    /\ Quiet
    /\ o \in DOMAIN orders
    /\ orders[o].payment_method = "cod"
    /\ restocks[o] = 2
    /\ \A other \in OrderIds \ {o} : restocks[other] = 0

\* what product pr has gained since the start
Gain(pr) == stock[pr] - InitStock

\* C15: cancellations of one order are not guarded against each other. When
\* two cancel requests for an order needing no refund have both passed the
\* status check and both run the restock loop, a product's final stock is not
\* determined by the order: it lies between initial + quantity (updates lost)
\* and initial + 2 x quantity (none lost), and the witness reaches the lost
\* update with two overlapping requests.
C15_ConcurrentCancelsRace ==
    \A o \in OrderIds :
        CancelledTwice(o)
        => \A pr \in Products :
               /\ Gain(pr) >= Quantity(orders[o].items, pr)
               /\ Gain(pr) <= 2 * Quantity(orders[o].items, pr)

C15_Witness ==
    \E o \in OrderIds :
        /\ CancelledTwice(o)
        /\ nreq = 3
        /\ nover = 1
        /\ Gain("p2") = Quantity(orders[o].items, "p2")

\* the same two requests with no update lost
C15_NoneLost ==
    \E o \in OrderIds :
        /\ CancelledTwice(o)
        /\ nreq = 3
        /\ nover = 1
        /\ Gain("p2") = 2 * Quantity(orders[o].items, "p2")

\* worker p stopped in a cancel request after the gateway refund succeeded
\* and before the first line item's stock was written
StoppedAfterRefund(p) ==
    /\ pc[p] = "crashed"
    /\ req[p].kind = "cancel"
    /\ loc[p].at \in {"item_read", "item_write"}
    /\ loc[p].i = 1
    /\ loc[p].refund = "succeeded"

\* C16 as stated: after such a stop the stored status is unchanged, no stock
\* is restored and the stored payment_status is refunded.
C16_CrashLeavesRefundedStored ==
    \A p \in Procs :
        StoppedAfterRefund(p)
        => /\ orders[req[p].oid].status = Before(p).status
           /\ stock = snap.stock
           /\ orders[req[p].oid].payment_status = "refunded"

\* C16 amended: when the cancel handler stops after the gateway refund has
\* succeeded and before stock restoration, the refund has been made at the
\* gateway but nothing stored shows it: the stored status is unchanged, no
\* stock is restored, and the stored payment_status is still paid.
C16_CrashLeavesPaidStored ==
    \A p \in Procs :
        StoppedAfterRefund(p)
        => /\ loc[p].calls = 1
           /\ orders[req[p].oid].status = Before(p).status
           /\ orders[req[p].oid].status # "cancelled"
           /\ stock = snap.stock
           /\ orders[req[p].oid].payment_status = "paid"
           /\ orders = snap.orders

C16_Witness ==
    \E p \in Procs :
        /\ StoppedAfterRefund(p)
        /\ loc[p].at = "item_read"
        /\ orders[req[p].oid].status = "processing"
        /\ orders[req[p].oid].payment_status = "paid"

\* C17: with requests served one at a time, whatever cancel and
\* administrative status-update requests an order receives, the cancel handler
\* runs its restock loop for that order at most once.
C17_RestockedAtMostOnce ==
    \A o \in OrderIds : restocks[o] <= 1

\* C18: once an order's stored payment_status is refunded, no step of any
\* request, a webhook event for the same payment intent included, changes it.
C18_RefundedStaysRefunded ==
    [][ \A o \in DOMAIN orders :
            orders[o].payment_status = "refunded"
            => orders'[o].payment_status = "refunded"
      ]_vars

\* C19: every queued confirmation task names an order that is stored or whose
\* creation transaction is about to commit, and the queue worker takes a task
\* only when its order is stored and visible.
C19_TaskOnlyForCommittedOrder ==
    /\ [](\A i \in 1 .. Len(queue) :
            \/ queue[i] \in DOMAIN orders
            \/ \E p \in Procs : pc[p] = "commit" /\ loc[p].id = queue[i])
    /\ [][ (queue # <<>> /\ queue' = Tail(queue))
            => Head(queue) \in DOMAIN orders
          ]_vars
====
